---- MODULE Spec2Model ----
(***************************************************************************)
(* RagasAdapter (services/ark-evaluator, oss_providers/ragas_adapter.py):  *)
(* evaluate() chooses direct or isolated (worker thread) execution, runs   *)
(* _run_ragas_async stage by stage, and converts every exception into the  *)
(* scores of _fallback_evaluation.                                         *)
(*                                                                         *)
(* Text is a sequence of one-character strings.  A score is a reduced      *)
(* fraction <<n, d>>: Python's float division of two small integers is     *)
(* correctly rounded, so two quotients are the same float exactly when     *)
(* they are the same fraction (0.5 is <<1, 2>>, 0.7 is <<7, 10>>).         *)
(*                                                                         *)
(* Three specifications share the steps of a call and differ in the        *)
(* arguments evaluate is given: Spec (one call, every metric list),        *)
(* SpecEnv (one call, every params bag and starting environment) and       *)
(* SpecCalls (calls one after the other on the same process).              *)
(* SpecConcurrent lets the workers of two isolated calls overlap, and      *)
(* SpecFallback applies _fallback_evaluation alone to more texts.          *)
(***************************************************************************)
EXTENDS Integers, Sequences, FiniteSets, TLC

VARIABLES
    call,          \* per call: the frame of evaluate / _run_ragas_sync / _run_ragas_async
    environ,       \* os.environ restricted to the variables the worker writes
    policy,        \* the process-wide asyncio event loop policy
    ragasMetrics   \* the module-level metric objects of ragas.metrics

vars == <<call, environ, policy, ragasMetrics>>

-----------------------------------------------------------------------------
\* Bounds of the model.

\* number of evaluate calls made on the process
MaxCalls == 2
\* longest requested metric list
MaxMetrics == 2

Calls == 1..MaxCalls

None == "None"
\* no LLM / embeddings handle; a handle is named by the call that built it
NoHandle == 0

-----------------------------------------------------------------------------
\* Text helpers (str.lower, str.split, the `in` substring test, len).

UpperCase == <<"A","B","C","D","E","F","G","H","I","J","K","L","M",
               "N","O","P","Q","R","S","T","U","V","W","X","Y","Z">>
LowerCase == <<"a","b","c","d","e","f","g","h","i","j","k","l","m",
               "n","o","p","q","r","s","t","u","v","w","x","y","z">>
Whitespace == {" ", "\t", "\n"}

LowerChar(ch) ==
    IF \E i \in DOMAIN UpperCase : UpperCase[i] = ch
    THEN LowerCase[CHOOSE i \in DOMAIN UpperCase : UpperCase[i] = ch]
    ELSE ch

\* str.lower()
Lower(text) ==
    LET lowered == [i \in DOMAIN text |-> LowerChar(text[i])]
    IN  SubSeq(lowered, 1, Len(text))

\* where the word that starts at i ends
WordEnd(text, i) ==
    CHOOSE j \in i..Len(text) :
        /\ (j = Len(text) \/ text[j + 1] \in Whitespace)
        /\ \A k \in i..j : text[k] \notin Whitespace

\* set(str.split()): the maximal runs of non-whitespace characters
Words(text) ==
    { SubSeq(text, i, WordEnd(text, i)) :
        i \in { s \in 1..Len(text) :
                  /\ text[s] \notin Whitespace
                  /\ (s = 1 \/ text[s - 1] \in Whitespace) } }

\* word in text
Contains(word, text) ==
    \E i \in 0..(Len(text) - Len(word)) : SubSeq(text, i + 1, i + Len(word)) = word

RECURSIVE Gcd(_, _)
Gcd(a, b) == IF b = 0 THEN a ELSE Gcd(b, a % b)

\* the float a / b, for integers a >= 0 and b > 0
Div(a, b) == LET g == Gcd(a, b) IN <<a \div g, b \div g>>

\* min(1.0, x)
Min1(x) == IF x[1] >= x[2] THEN <<1, 1>> ELSE x

\* max(n, 1)
Max1(n) == IF n >= 1 THEN n ELSE 1

NeutralScore == <<1, 2>>
NanScore == <<7, 10>>
MissingScore == <<0, 1>>

-----------------------------------------------------------------------------
\* _fallback_evaluation

toxic_words == << <<"h","a","t","e">>, <<"s","t","u","p","i","d">>,
                  <<"i","d","i","o","t">>, <<"k","i","l","l">>,
                  <<"d","i","e">>, <<"w","o","r","s","t">> >>

LengthDivisor == 100
ToxicDivisor == 3

FallbackRelevance(input_text, output_text) ==
    LET input_words == Words(Lower(input_text))
        output_words == Words(Lower(output_text))
        overlap == Cardinality(input_words \cap output_words)
    IN  Min1(Div(overlap, Max1(Cardinality(input_words))))

\* as FallbackCorrectness, without the cap at 1.0
FallbackCorrectness_NoCap(output_text) == Div(Len(output_text), LengthDivisor)

FallbackCorrectness(output_text) == Min1(Div(Len(output_text), LengthDivisor))

\* as FallbackToxicity, counting the toxic words that are words of the output
FallbackToxicity_Tokens(output_text) ==
    LET toxic_count ==
            Cardinality({ i \in DOMAIN toxic_words :
                            toxic_words[i] \in Words(Lower(output_text)) })
    IN  Min1(Div(toxic_count, ToxicDivisor))

FallbackToxicity(output_text) ==
    LET toxic_count ==
            Cardinality({ i \in DOMAIN toxic_words :
                            Contains(toxic_words[i], Lower(output_text)) })
    IN  Min1(Div(toxic_count, ToxicDivisor))

FallbackScore(metric, input_text, output_text) ==
    IF metric = "relevance" THEN FallbackRelevance(input_text, output_text)
    ELSE IF metric = "correctness" THEN FallbackCorrectness(output_text)
    ELSE IF metric = "toxicity" THEN FallbackToxicity(output_text)
    ELSE NeutralScore

\* scores[metric] = value
Put(scores, metric, value) ==
    [m \in DOMAIN scores \cup {metric} |-> IF m = metric THEN value ELSE scores[m]]

EmptyDict == [m \in {} |-> NeutralScore]

RECURSIVE FallbackLoop(_, _, _, _)
FallbackLoop(scores, metrics, input_text, output_text) ==
    IF metrics = <<>> THEN scores
    ELSE FallbackLoop(Put(scores, Head(metrics),
                          FallbackScore(Head(metrics), input_text, output_text)),
                      Tail(metrics), input_text, output_text)

fallback_evaluation(input_text, output_text, metrics) ==
    FallbackLoop(EmptyDict, metrics, input_text, output_text)

-----------------------------------------------------------------------------
\* Inputs of evaluate(input_text, output_text, metrics, params).

InputTexts == { <<"H","i">> }
OutputTexts == { <<"h","i"," ","D","i","e">> }

\* caller vocabulary used by the model: two names with engine keys of their
\* own, one that shares a key (helpfulness), one mapped to None (toxicity)
\* and one the table does not know (banana)
MetricNames == {"relevance", "correctness", "helpfulness", "toxicity", "banana"}

MetricLists == UNION { [1..n -> MetricNames] : n \in 0..MaxMetrics }

AzureKeyParam == "langfuse.azure_api_key"
AzureEndpointParam == "langfuse.azure_endpoint"
ModelVersionParam == "langfuse.model_version"
ContextParam == "context"

EnvParams == {AzureKeyParam, AzureEndpointParam, ModelVersionParam}

NoContextText == <<>>
SomeContextText == <<"c","t","x">>

\* params: the keys present, each credential value distinct per call
AllParams == EnvParams \cup {ContextParam}

ParamBags(c) ==
    UNION { { [k \in ks |-> IF k = ContextParam THEN ctx ELSE <<"value of call", c>>] :
                ctx \in {NoContextText, SomeContextText} } :
            ks \in SUBSET AllParams }

BaseParamBags(c) ==
    { b \in ParamBags(c) : DOMAIN b = {} \/ (DOMAIN b = AllParams /\ b[ContextParam] # <<>>) }

BaseMetricLists == { <<>>, <<"relevance">>, <<"relevance", "toxicity">> }

\* type of asyncio.get_event_loop(): uvloop, the stock loop, or RuntimeError
LoopKinds == {"uvloop", "asyncio", "RuntimeError"}

-----------------------------------------------------------------------------
\* Process state.

\* a variable that is not in os.environ
Absent == <<>>
AmbientValue == <<"ambient">>

AzureKeyVar == "AZURE_OPENAI_API_KEY"
AzureEndpointVar == "AZURE_OPENAI_ENDPOINT"
ApiVersionVar == "OPENAI_API_VERSION"
EnvVars == {AzureKeyVar, AzureEndpointVar, ApiVersionVar}
\* a variable of the deployment that the adapter has no business with
UnrelatedVar == "OPENAI_API_KEY"
AllVars == EnvVars \cup {UnrelatedVar}

\* os.environ with the three variables as given and the unrelated one set
Environ(azure) == [v \in AllVars |-> IF v \in EnvVars THEN azure[v] ELSE <<"ambient">>]

EngineKeys == {"answer_relevancy", "answer_correctness", "answer_similarity",
               "faithfulness"}

\* the engine's float results (the second one is outside [0, 1]), and nan
EngineValues == { <<9, 10>>, <<6, 5>> }
NaN == <<0, 0>>
\* a key the engine's result row does not hold
NoValue == <<>>

NoRaw == [k \in EngineKeys |-> NoValue]

ProviderTypes == {"azure_openai", "openai"}

UnboundMetric == [llm |-> NoHandle, embeddings |-> NoHandle]

\* The locals of one evaluate call.  result and engine_args are <<>> until
\* set and <<value>> afterwards.  Some fields are records of what happened,
\* not locals: environ_before and policy_before (os.environ and the event
\* loop policy when the call was made), ambient (what get_event_loop gave),
\* embeddings_try (how lines 154-187 ended), engine (how the engine run ended)
\* and caught (the exception evaluate's handler caught).
IdleFrame ==
    [ pc |-> "idle", input_text |-> <<>>, output_text |-> <<>>, metrics |-> <<>>,
      params |-> <<>>, mode |-> None, env_vars_set |-> <<>>, loop |-> None,
      provider_type |-> None, llm |-> NoHandle, probe |-> None,
      embeddings |-> NoHandle, supported_metrics |-> <<>>, contexts |-> <<>>,
      engine_args |-> <<>>, engine |-> None, raw |-> NoRaw, exc |-> None,
      caught |-> None, result |-> <<>>, environ_before |-> <<>>,
      policy_before |-> None, ambient |-> None, embeddings_try |-> None ]

\* A fresh process: no call made, the metric objects as ragas created them,
\* the three variables all unset or all set by the deployment.
Init ==
    /\ call = [c \in Calls |-> IdleFrame]
    /\ \E azure \in { [v \in EnvVars |-> Absent], [v \in EnvVars |-> AmbientValue] } :
         environ = Environ(azure)
    /\ policy \in {"uvloop", "default"}
    /\ ragasMetrics = [k \in EngineKeys |-> UnboundMetric]

\* The same, with any of the three variables set.
InitEnv ==
    /\ call = [c \in Calls |-> IdleFrame]
    /\ \E azure \in [EnvVars -> {Absent, AmbientValue}] : environ = Environ(azure)
    /\ policy \in {"uvloop", "default"}
    /\ ragasMetrics = [k \in EngineKeys |-> UnboundMetric]

-----------------------------------------------------------------------------
\* Control transfer out of _run_ragas_async.

\* an exception leaves _run_ragas_async: in the worker it passes through
\* _run_ragas_sync's except/finally, directly it reaches evaluate's handlers
Raised(f, e) ==
    [f EXCEPT !.exc = e,
              !.pc = IF f.mode = "isolated" THEN "sync_finally" ELSE "handler"]

\* _run_ragas_async returns scores
Returned(f, scores) ==
    [f EXCEPT !.result = <<scores>>,
              !.pc = IF f.mode = "isolated" THEN "sync_finally" ELSE "done"]

-----------------------------------------------------------------------------
\* evaluate, lines 36-55: pick the execution mode.

is_uvloop(loop_kind) == loop_kind = "uvloop"

\* lines 36-55; the caller's arguments are drawn from the given sets
EvaluateWith(c, lists, bags) ==
    /\ call[c].pc = "idle"
    /\ \A d \in Calls : d < c => call[d].pc = "returned"
    /\ \E input_text \in InputTexts, output_text \in OutputTexts,
          metrics \in lists, params \in bags, loop_kind \in LoopKinds :
         call' = [call EXCEPT ![c] =
                    [IdleFrame EXCEPT
                        !.input_text = input_text, !.output_text = output_text,
                        !.metrics = metrics, !.params = params,
                        !.environ_before = environ,
                        !.policy_before = policy,
                        !.ambient = loop_kind,
                        !.mode = IF is_uvloop(loop_kind) THEN "isolated" ELSE "direct",
                        !.pc = IF is_uvloop(loop_kind) THEN "sync_setenv" ELSE "import"]]
    /\ UNCHANGED <<environ, policy, ragasMetrics>>

-----------------------------------------------------------------------------
\* _run_ragas_sync: the worker thread of the isolated mode.

\* as EnvVarOf, with the key written to OPENAI_API_KEY
EnvVarOf_OpenAIKey(param) ==
    IF param = AzureKeyParam THEN UnrelatedVar
    ELSE IF param = AzureEndpointParam THEN AzureEndpointVar
    ELSE ApiVersionVar

EnvVarOf(param) ==
    IF param = AzureKeyParam THEN AzureKeyVar
    ELSE IF param = AzureEndpointParam THEN AzureEndpointVar
    ELSE ApiVersionVar

\* lines 75-85, in source order
EnvParamOrder == <<AzureKeyParam, AzureEndpointParam, ModelVersionParam>>

RECURSIVE SetEnvLoop(_, _, _, _)
SetEnvLoop(env, set, todo, params) ==
    IF todo = <<>> THEN [env |-> env, set |-> set]
    ELSE IF Head(todo) \in DOMAIN params
         THEN SetEnvLoop([env EXCEPT ![EnvVarOf(Head(todo))] = params[Head(todo)]],
                         Append(set, EnvVarOf(Head(todo))), Tail(todo), params)
         ELSE SetEnvLoop(env, set, Tail(todo), params)

\* lines 74-88
SyncSetEnv(c) ==
    /\ call[c].pc = "sync_setenv"
    /\ LET r == SetEnvLoop(environ, <<>>, EnvParamOrder, call[c].params)
       IN  /\ environ' = r.env
           /\ call' = [call EXCEPT ![c].env_vars_set = r.set,
                                   ![c].pc = "sync_newloop"]
    /\ UNCHANGED <<policy, ragasMetrics>>

\* lines 90-98: the policy is replaced process-wide; new_event_loop() either
\* gives a loop or raises (OSError), and that raise is outside the try
SyncNewLoop(c) ==
    /\ call[c].pc = "sync_newloop"
    /\ policy' = "default"
    /\ \/ call' = [call EXCEPT ![c].loop = "open", ![c].pc = "import"]
       \/ call' = [call EXCEPT ![c].exc = "OSError", ![c].pc = "handler"]
    /\ UNCHANGED <<environ, ragasMetrics>>

\* os.environ.pop(var, None)
RECURSIVE PopEnvLoop(_, _)
PopEnvLoop(env, set) ==
    IF set = <<>> THEN env
    ELSE PopEnvLoop([env EXCEPT ![Head(set)] = Absent], Tail(set))

\* lines 102-111: re-raise, close the loop, clean the environment
SyncFinally(c) ==
    /\ call[c].pc = "sync_finally"
    /\ environ' = PopEnvLoop(environ, call[c].env_vars_set)
    /\ call' = [call EXCEPT ![c].loop = "closed",
                            ![c].pc = IF call[c].exc # None THEN "handler" ELSE "done"]
    /\ UNCHANGED <<policy, ragasMetrics>>

-----------------------------------------------------------------------------
\* evaluate, lines 57-62: both handlers return the fallback scores.

\* as Handler, with only the ImportError clause: anything else reaches the caller
Handler_ImportErrorOnly(c) ==
    /\ call[c].pc = "handler"
    /\ call' = [call EXCEPT
                  ![c].result = IF call[c].exc = "ImportError"
                                THEN <<fallback_evaluation(call[c].input_text,
                                                           call[c].output_text,
                                                           call[c].metrics)>>
                                ELSE <<>>,
                  ![c].caught = IF call[c].exc = "ImportError" THEN call[c].exc ELSE None,
                  ![c].exc = IF call[c].exc = "ImportError" THEN None ELSE call[c].exc,
                  ![c].pc = "done"]
    /\ UNCHANGED <<environ, policy, ragasMetrics>>

\* as Handler, answering 0.5 for every metric instead of the fallback scores
Handler_Neutral(c) ==
    /\ call[c].pc = "handler"
    /\ call' = [call EXCEPT
                  ![c].result = <<[m \in { call[c].metrics[i] : i \in DOMAIN call[c].metrics }
                                     |-> NeutralScore]>>,
                  ![c].caught = call[c].exc,
                  ![c].exc = None,
                  ![c].pc = "done"]
    /\ UNCHANGED <<environ, policy, ragasMetrics>>

\* as Handler, but a failure of the worker is followed by a direct run
Handler_RetryDirect(c) ==
    /\ call[c].pc = "handler"
    /\ call' = [call EXCEPT ![c] =
                  IF call[c].mode = "isolated"
                  THEN [call[c] EXCEPT !.mode = "direct", !.exc = None, !.pc = "import"]
                  ELSE [call[c] EXCEPT
                          !.result = <<fallback_evaluation(call[c].input_text,
                                                           call[c].output_text,
                                                           call[c].metrics)>>,
                          !.caught = call[c].exc,
                          !.exc = None,
                          !.pc = "done"]]
    /\ UNCHANGED <<environ, policy, ragasMetrics>>

Handler(c) ==
    /\ call[c].pc = "handler"
    /\ call' = [call EXCEPT
                  ![c].result = <<fallback_evaluation(call[c].input_text,
                                                      call[c].output_text,
                                                      call[c].metrics)>>,
                  ![c].caught = call[c].exc,
                  ![c].exc = None,
                  ![c].pc = "done"]
    /\ UNCHANGED <<environ, policy, ragasMetrics>>

\* the caller takes the mapping; the call's locals are gone
Return(c) ==
    /\ call[c].pc = "done"
    /\ call' = [call EXCEPT ![c] = [IdleFrame EXCEPT !.pc = "returned"]]
    /\ UNCHANGED <<environ, policy, ragasMetrics>>

-----------------------------------------------------------------------------
\* _run_ragas_async, lines 117-187: imports, provider, LLM, embeddings.

\* lines 118-127: from ragas / ragas.metrics / datasets import ...
AsyncImport(c) ==
    /\ call[c].pc = "import"
    /\ \/ call' = [call EXCEPT ![c].pc = "detect_provider"]
       \/ call' = [call EXCEPT ![c] = Raised(call[c], "ImportError")]
    /\ UNCHANGED <<environ, policy, ragasMetrics>>

\* line 130: self.llm_provider.detect_provider(params) returns a provider
\* type or raises; nothing catches the raise here
DetectProvider(c) ==
    /\ call[c].pc = "detect_provider"
    /\ \/ \E provider_type \in ProviderTypes :
            call' = [call EXCEPT ![c].provider_type = provider_type,
                                 ![c].pc = "create_llm"]
       \/ call' = [call EXCEPT ![c] = Raised(call[c], "ProviderError")]
    /\ UNCHANGED <<environ, policy, ragasMetrics>>

\* lines 134-138 and 148-150: create_instance / LangchainLLMWrapper; the
\* except clause logs and re-raises
\* as CreateLLM, but a failed construction is dropped and the call goes on
CreateLLM_Swallow(c) ==
    /\ call[c].pc = "create_llm"
    /\ \/ call' = [call EXCEPT ![c].llm = c, ![c].pc = "probe"]
       \/ call' = [call EXCEPT ![c].pc = "probe"]
    /\ UNCHANGED <<environ, policy, ragasMetrics>>

CreateLLM(c) ==
    /\ call[c].pc = "create_llm"
    /\ \/ call' = [call EXCEPT ![c].llm = c, ![c].pc = "probe"]
       \/ call' = [call EXCEPT ![c] = Raised(call[c], "LLMError")]
    /\ UNCHANGED <<environ, policy, ragasMetrics>>

\* lines 141-146: await agenerate(...); a failure is logged and dropped
Probe(c) ==
    /\ call[c].pc = "probe"
    /\ \E outcome \in {"ok", "failed"} :
         call' = [call EXCEPT ![c].probe = outcome, ![c].pc = "embeddings"]
    /\ UNCHANGED <<environ, policy, ragasMetrics>>

\* as CreateEmbeddings, but a failed construction leaves _run_ragas_async
CreateEmbeddings_Fatal(c) ==
    /\ call[c].pc = "embeddings"
    /\ \E built \in BOOLEAN :
         call' = [call EXCEPT ![c] =
                    IF call[c].provider_type = "azure_openai" /\ ~built
                    THEN Raised([call[c] EXCEPT !.embeddings_try = "failed"],
                                "EmbeddingsError")
                    ELSE [call[c] EXCEPT
                            !.embeddings =
                                IF call[c].provider_type = "azure_openai"
                                THEN c ELSE NoHandle,
                            !.embeddings_try =
                                IF call[c].provider_type # "azure_openai"
                                THEN "skipped" ELSE "built",
                            !.pc = "bind"]]
    /\ UNCHANGED <<environ, policy, ragasMetrics>>

\* lines 153-187: only for azure_openai; any exception leaves embeddings None
CreateEmbeddings(c) ==
    /\ call[c].pc = "embeddings"
    /\ \E built \in BOOLEAN :
         call' = [call EXCEPT
                    ![c].embeddings =
                        IF call[c].provider_type = "azure_openai" /\ built
                        THEN c ELSE NoHandle,
                    ![c].embeddings_try =
                        IF call[c].provider_type # "azure_openai" THEN "skipped"
                        ELSE IF built THEN "built" ELSE "failed",
                    ![c].pc = "bind"]
    /\ UNCHANGED <<environ, policy, ragasMetrics>>

-----------------------------------------------------------------------------
\* _run_ragas_async, lines 189-246: metric binding.

\* lines 190-198; None for toxicity, and no entry at all for other names
ragas_metric_map(metric) ==
    IF metric = "relevance" THEN "answer_relevancy"
    ELSE IF metric = "correctness" THEN "answer_correctness"
    ELSE IF metric = "similarity" THEN "answer_similarity"
    ELSE IF metric = "faithfulness" THEN "faithfulness"
    ELSE IF metric = "helpfulness" THEN "answer_relevancy"
    ELSE IF metric = "clarity" THEN "answer_similarity"
    ELSE None

\* line 203
IsSupported(metric) == ragas_metric_map(metric) # None

\* isinstance(metric_instance, MetricWithLLM), line 220
IsMetricWithLLM(key) == key \in {"answer_relevancy", "answer_correctness", "faithfulness"}

\* isinstance(metric_instance, MetricWithEmbeddings), line 222
IsMetricWithEmbeddings(key) ==
    key \in {"answer_relevancy", "answer_correctness", "answer_similarity"}

\* What `from ragas.metrics import answer_relevancy, ...` binds: the
\* module-level metric objects (answer_relevancy = AnswerRelevancy()), which
\* carry `name` and are not callable, so the test of line 212 is false.
RagasExportKind == "instance"

\* lines 212-226 for one metric: a factory gives an object of this call, an
\* exported instance is the module-level object itself
BindOne(key, store, llm, embeddings, kind) ==
    LET setLLM == IsMetricWithLLM(key)
        setEmb == IsMetricWithEmbeddings(key) /\ embeddings # NoHandle
    IN  IF kind = "factory"
        THEN [ inst |-> [name |-> key, shared |-> FALSE,
                         llm |-> IF setLLM THEN llm ELSE NoHandle,
                         embeddings |-> IF setEmb THEN embeddings ELSE NoHandle],
               store |-> store ]
        ELSE [ inst |-> [name |-> key, shared |-> TRUE,
                         llm |-> NoHandle, embeddings |-> NoHandle],
               store |-> [store EXCEPT
                            ![key] = [llm |-> IF setLLM THEN llm ELSE @.llm,
                                      embeddings |-> IF setEmb THEN embeddings
                                                     ELSE @.embeddings]] ]

\* lines 201-232; failAt = k makes the k-th metric_instance.init(run_config)
\* raise (0: none does).  imported: the loop body's imports (lines 208-209) ran.
RECURSIVE BindLoop(_, _, _, _, _, _, _, _)
BindLoop(metrics, supported, store, imported, llm, embeddings, kind, failAt) ==
    IF metrics = <<>>
    THEN [supported |-> supported, store |-> store, imported |-> imported,
          raised |-> None]
    ELSE IF IsSupported(Head(metrics))
    THEN LET b == BindOne(ragas_metric_map(Head(metrics)), store, llm, embeddings, kind)
         IN  IF failAt = Len(supported) + 1
             THEN [supported |-> supported, store |-> b.store, imported |-> TRUE,
                   raised |-> "InitError"]
             ELSE BindLoop(Tail(metrics), Append(supported, b.inst), b.store, TRUE,
                           llm, embeddings, kind, failAt)
    ELSE BindLoop(Tail(metrics), supported, store, imported, llm, embeddings, kind,
                  failAt)

\* lines 234-246: the default metric.  MetricWithLLM, MetricWithEmbeddings and
\* RunConfig are locals bound only by the imports inside the loop body, so
\* line 240 raises UnboundLocalError when no iteration bound them.
BindDefault(r, llm, embeddings, kind) ==
    IF r.raised # None \/ r.supported # <<>> THEN r
    ELSE IF ~r.imported
    THEN [r EXCEPT !.raised = "UnboundLocalError"]
    ELSE LET b == BindOne("answer_relevancy", r.store, llm, embeddings, kind)
         IN  [r EXCEPT !.supported = <<b.inst>>, !.store = b.store]

NumSupported(metrics) == Cardinality({ i \in DOMAIN metrics : IsSupported(metrics[i]) })

BindMetrics(c) ==
    /\ call[c].pc = "bind"
    /\ \E failAt \in 0..NumSupported(call[c].metrics) :
         LET f == call[c]
             r == BindDefault(BindLoop(f.metrics, <<>>, ragasMetrics, FALSE, f.llm,
                                       f.embeddings, RagasExportKind, failAt),
                              f.llm, f.embeddings, RagasExportKind)
         IN  /\ ragasMetrics' = r.store
             /\ call' = [call EXCEPT ![c] =
                           IF r.raised # None THEN Raised(f, r.raised)
                           ELSE [f EXCEPT !.supported_metrics = r.supported,
                                          !.pc = "dataset"]]
    /\ UNCHANGED <<environ, policy>>

-----------------------------------------------------------------------------
\* _run_ragas_async, lines 248-277: the evaluation record.

DefaultContext == <<"N","o"," ","s","p","e","c","i","f","i","c"," ","c","o","n","t","e","x","t"," ","p","r","o","v","i","d","e","d">>

\* as Contexts, but only an absent context gets the placeholder
Contexts_KeepEmpty(params) ==
    IF ContextParam \in DOMAIN params THEN <<params[ContextParam]>>
    ELSE <<DefaultContext>>

\* lines 249-260: eval_params.context or "", then the truth test
Contexts(params) ==
    LET context == IF ContextParam \in DOMAIN params THEN params[ContextParam] ELSE <<>>
    IN  IF context # <<>> THEN <<context>> ELSE <<DefaultContext>>

BuildDataset(c) ==
    /\ call[c].pc = "dataset"
    /\ \/ call' = [call EXCEPT ![c].contexts = Contexts(call[c].params),
                               ![c].pc = "engine"]
       \/ call' = [call EXCEPT ![c] = Raised(call[c], "DatasetError")]
    /\ UNCHANGED <<environ, policy, ragasMetrics>>

-----------------------------------------------------------------------------
\* _run_ragas_async, lines 279-293: the engine run.

\* the metric object behind an entry of supported_metrics, as the engine sees it
Deref(inst, store) ==
    IF inst.shared
    THEN [name |-> inst.name, llm |-> store[inst.name].llm,
          embeddings |-> store[inst.name].embeddings]
    ELSE [name |-> inst.name, llm |-> inst.llm, embeddings |-> inst.embeddings]

EngineArgs(supported, store) == [i \in DOMAIN supported |-> Deref(supported[i], store)]

\* the result row: a float, nan or nothing under the name of each metric run
RawResults(supported) ==
    { r \in [EngineKeys -> EngineValues \cup {NaN, NoValue}] :
        \A k \in EngineKeys :
            (\A i \in DOMAIN supported : supported[i].name # k) => r[k] = NoValue }

\* lines 289-293
RECURSIVE NeutralLoop(_, _)
NeutralLoop(fallback_scores, metrics) ==
    IF metrics = <<>> THEN fallback_scores
    ELSE NeutralLoop(Put(fallback_scores, Head(metrics), NeutralScore), Tail(metrics))

\* as EngineFailureScores, with the heuristics of the fallback (on empty texts)
EngineFailureScores_Heuristic(metrics) == fallback_evaluation(<<>>, <<>>, metrics)

EngineFailureScores(metrics) == NeutralLoop(EmptyDict, metrics)

\* as RunEngine, but an engine failure is followed by another run
RunEngine_Retry(c) ==
    /\ call[c].pc = "engine"
    /\ LET f == call[c]
           g == [f EXCEPT !.engine_args = <<EngineArgs(f.supported_metrics, ragasMetrics)>>]
       IN  \/ \E raw \in RawResults(f.supported_metrics) :
                call' = [call EXCEPT ![c] = [g EXCEPT !.engine = "ok", !.raw = raw,
                                                      !.pc = "normalize"]]
           \/ /\ f.engine = None
              /\ call' = [call EXCEPT ![c] = [g EXCEPT !.engine = "raised"]]
           \/ /\ f.engine = "raised"
              /\ call' = [call EXCEPT ![c] = Returned(g, EngineFailureScores(f.metrics))]
    /\ UNCHANGED <<environ, policy, ragasMetrics>>

RunEngine(c) ==
    /\ call[c].pc = "engine"
    /\ LET f == call[c]
           g == [f EXCEPT !.engine_args = <<EngineArgs(f.supported_metrics, ragasMetrics)>>]
       IN  \/ \E raw \in RawResults(f.supported_metrics) :
                call' = [call EXCEPT ![c] = [g EXCEPT !.engine = "ok", !.raw = raw,
                                                      !.pc = "normalize"]]
           \/ call' = [call EXCEPT ![c] =
                         Returned([g EXCEPT !.engine = "raised"],
                                  EngineFailureScores(f.metrics))]
    /\ UNCHANGED <<environ, policy, ragasMetrics>>

-----------------------------------------------------------------------------
\* _run_ragas_async, lines 295-328: scores under the caller's names.

\* lines 302-314: the value the if/elif chain finds, NoValue when it finds none
ResultValue(metric, result_dict) ==
    IF metric = "relevance" THEN result_dict["answer_relevancy"]
    ELSE IF metric = "correctness" THEN result_dict["answer_correctness"]
    ELSE IF metric = "similarity" THEN result_dict["answer_similarity"]
    ELSE IF metric = "faithfulness" THEN result_dict["faithfulness"]
    ELSE IF metric = "helpfulness" THEN result_dict["answer_relevancy"]
    ELSE IF metric = "clarity" THEN result_dict["answer_similarity"]
    ELSE NoValue

\* as NormalizedScore, with 0.5 for a metric that has no value
NormalizedScore_MissingNeutral(metric, result_dict) ==
    LET value == ResultValue(metric, result_dict)
    IN  IF value # NoValue
        THEN IF value = NaN THEN NanScore ELSE value
        ELSE NeutralScore

\* lines 316-325
NormalizedScore(metric, result_dict) ==
    LET value == ResultValue(metric, result_dict)
    IN  IF value # NoValue
        THEN IF value = NaN THEN NanScore ELSE value
        ELSE MissingScore

RECURSIVE NormalizeLoop(_, _, _)
NormalizeLoop(scores, metrics, result_dict) ==
    IF metrics = <<>> THEN scores
    ELSE NormalizeLoop(Put(scores, Head(metrics),
                           NormalizedScore(Head(metrics), result_dict)),
                       Tail(metrics), result_dict)

\* as NormalizeLoop, but a metric without a value gets no entry
RECURSIVE NormalizeLoop_SkipMissing(_, _, _)
NormalizeLoop_SkipMissing(scores, metrics, result_dict) ==
    IF metrics = <<>> THEN scores
    ELSE IF ResultValue(Head(metrics), result_dict) = NoValue
    THEN NormalizeLoop_SkipMissing(scores, Tail(metrics), result_dict)
    ELSE NormalizeLoop_SkipMissing(Put(scores, Head(metrics),
                                       NormalizedScore(Head(metrics), result_dict)),
                                   Tail(metrics), result_dict)

NormalizeScores_SkipMissing(metrics, result_dict) ==
    NormalizeLoop_SkipMissing(EmptyDict, metrics, result_dict)

\* as NormalizeScores, but one nan makes every metric 0.7
NormalizeScores_NanPoisons(metrics, result_dict) ==
    IF \E i \in DOMAIN metrics : ResultValue(metrics[i], result_dict) = NaN
    THEN [m \in { metrics[i] : i \in DOMAIN metrics } |-> NanScore]
    ELSE NormalizeLoop(EmptyDict, metrics, result_dict)

NormalizeScores(metrics, result_dict) == NormalizeLoop(EmptyDict, metrics, result_dict)

\* line 297 (to_pandas / records[0]) or float(value) may raise; otherwise the
\* scores are returned
Normalize(c) ==
    /\ call[c].pc = "normalize"
    /\ \/ call' = [call EXCEPT ![c] =
                     Returned(call[c], NormalizeScores(call[c].metrics, call[c].raw))]
       \/ call' = [call EXCEPT ![c] = Raised(call[c], "ExtractError")]
    /\ UNCHANGED <<environ, policy, ragasMetrics>>

-----------------------------------------------------------------------------

\* The steps of a call that is under way.
Step(c) ==
    \/ SyncSetEnv(c)
    \/ SyncNewLoop(c)
    \/ AsyncImport(c)
    \/ DetectProvider(c)
    \/ CreateLLM(c)
    \/ Probe(c)
    \/ CreateEmbeddings(c)
    \/ BindMetrics(c)
    \/ BuildDataset(c)
    \/ RunEngine(c)
    \/ Normalize(c)
    \/ SyncFinally(c)
    \/ Handler(c)
    \/ Return(c)

\* One evaluate call, every metric list, with no params or with all of them.
Evaluate(c) == c = 1 /\ EvaluateWith(c, MetricLists, BaseParamBags(c))

Next == \E c \in Calls : Evaluate(c) \/ Step(c)

Spec == Init /\ [][Next]_vars

\* One evaluate call, every params bag, with a few metric lists.
EvaluateEnv(c) == c = 1 /\ EvaluateWith(c, BaseMetricLists, ParamBags(c))

NextEnv == \E c \in Calls : EvaluateEnv(c) \/ Step(c)

SpecEnv == InitEnv /\ [][NextEnv]_vars

\* Calls one after the other on the same process.
EvaluateAgain(c) == EvaluateWith(c, BaseMetricLists, BaseParamBags(c))

NextCalls == \E c \in Calls : EvaluateAgain(c) \/ Step(c)

SpecCalls == Init /\ [][NextCalls]_vars

-----------------------------------------------------------------------------
\* Isolated calls that overlap: evaluate called on two threads, each with a
\* uvloop loop of its own.  Nothing in lines 47-52 or 74-111 takes a lock, so
\* every interleaving of the two workers is possible; the specification
\* explores those in which a worker is preempted only after its writes to
\* os.environ (before it creates its loop) or before the evaluation starts.

ConcurrentCallers == {1, 2}

\* params with the key alone, or with key, endpoint and version
ConcurrentParamBags(c) ==
    { b \in ParamBags(c) : DOMAIN b \in {{AzureKeyParam}, EnvParams} }

\* the thread of call d is not running, or is at one of the two switch points
Preemptible(d) == call[d].pc \in {"idle", "returned", "sync_newloop", "import"}

\* lines 36-52, the uvloop branch
EvaluateConcurrent(c) ==
    /\ c \in ConcurrentCallers
    /\ \A d \in Calls \ {c} : Preemptible(d)
    /\ call[c].pc = "idle"
    /\ \E input_text \in InputTexts, output_text \in OutputTexts,
          params \in ConcurrentParamBags(c) :
         call' = [call EXCEPT ![c] =
                    [IdleFrame EXCEPT
                        !.input_text = input_text, !.output_text = output_text,
                        !.metrics = <<"relevance">>, !.params = params,
                        !.environ_before = environ,
                        !.policy_before = policy,
                        !.ambient = "uvloop",
                        !.mode = "isolated",
                        !.pc = "sync_setenv"]]
    /\ UNCHANGED <<environ, policy, ragasMetrics>>

\* the thread of call c may run
Scheduled(c) == \A d \in Calls \ {c} : Preemptible(d)

StepConcurrent(c) ==
    \/ Scheduled(c) /\ SyncSetEnv(c)
    \/ Scheduled(c) /\ SyncNewLoop(c)
    \/ Scheduled(c) /\ AsyncImport(c)
    \/ Scheduled(c) /\ DetectProvider(c)
    \/ Scheduled(c) /\ CreateLLM(c)
    \/ Scheduled(c) /\ Probe(c)
    \/ Scheduled(c) /\ CreateEmbeddings(c)
    \/ Scheduled(c) /\ BindMetrics(c)
    \/ Scheduled(c) /\ BuildDataset(c)
    \/ Scheduled(c) /\ RunEngine(c)
    \/ Scheduled(c) /\ Normalize(c)
    \/ Scheduled(c) /\ SyncFinally(c)
    \/ Scheduled(c) /\ Handler(c)
    \/ Scheduled(c) /\ Return(c)

NextConcurrent == \E c \in Calls : EvaluateConcurrent(c) \/ StepConcurrent(c)

SpecConcurrent == Init /\ [][NextConcurrent]_vars

-----------------------------------------------------------------------------
\* _fallback_evaluation on its own, over more texts.

\* a text of n characters without whitespace
Pad(n) == [i \in 1..n |-> "x"]

FallbackInputTexts ==
    { <<>>,
      <<"a"," ","b">>,
      <<"A"," "," ","a","\t","c">>,
      <<"d","i","e">> }

FallbackOutputTexts ==
    { <<>>,
      <<"a">>,
      <<"B"," ","a","\n","c">>,
      <<"d","i","e","t">>,
      <<"H","a","t","e"," ","k","i","l","l"," ","D","I","E">>,
      <<"w","o","r","s","t"," ","i","d","i","o","t"," ","s","t","u","p","i","d",
        " ","k","i","l","l">>,
      Pad(LengthDivisor - 1), Pad(LengthDivisor), Pad(LengthDivisor + 1) }

FallbackMetricNames == {"relevance", "correctness", "toxicity", "banana"}

FallbackMetricLists == UNION { [1..n -> FallbackMetricNames] : n \in 0..MaxMetrics }

\* the frames that hold a call of _fallback_evaluation
FallbackCallers == {1, 2}

\* two calls with the same input text and metric list, each with an output
InitFallback ==
    /\ \E input_text \in FallbackInputTexts, metrics \in FallbackMetricLists,
          outputs \in [FallbackCallers -> FallbackOutputTexts] :
         call = [c \in Calls |->
                   IF c \in FallbackCallers
                   THEN [IdleFrame EXCEPT !.pc = "fallback",
                                          !.input_text = input_text,
                                          !.output_text = outputs[c],
                                          !.metrics = metrics]
                   ELSE IdleFrame]
    /\ environ = Environ([v \in EnvVars |-> Absent])
    /\ policy = "default"
    /\ ragasMetrics = [k \in EngineKeys |-> UnboundMetric]

\* lines 330-353
FallbackCall(c) ==
    /\ call[c].pc = "fallback"
    /\ call' = [call EXCEPT
                  ![c].result = <<fallback_evaluation(call[c].input_text,
                                                      call[c].output_text,
                                                      call[c].metrics)>>,
                  ![c].pc = "fallback_done"]
    /\ UNCHANGED <<environ, policy, ragasMetrics>>

NextFallback == \E c \in Calls : FallbackCall(c)

SpecFallback == InitFallback /\ [][NextFallback]_vars

-----------------------------------------------------------------------------
\* Properties.

Range(seq) == { seq[i] : i \in DOMAIN seq }

Done(c) == call[c].pc = "done"

\* the exceptions of the stages that follow the connectivity probe
LaterExceptions == {"InitError", "UnboundLocalError", "DatasetError", "ExtractError"}

\* C1: when evaluate returns, in either mode and whatever the stages did, the
\* keys of the returned mapping are exactly the requested metric names.
C1_KeySetIsRequested ==
    \A c \in Calls :
        Done(c) => /\ Len(call[c].result) = 1
                   /\ DOMAIN call[c].result[1] = Range(call[c].metrics)

\* an isolated call returned engine scores for a supported and an unknown name
C1_Witness ==
    \E c \in Calls :
        /\ Done(c) /\ call[c].mode = "isolated" /\ call[c].engine = "ok"
        /\ call[c].caught = None
        /\ call[c].metrics = <<"banana", "relevance">>
        /\ call[c].raw["answer_relevancy"] = NaN

\* C2: evaluate ends by returning a mapping: a call that has ended holds a
\* result and no exception, and an exception in flight is only ever on its
\* way to evaluate's handler.
C2_NeverRaises ==
    \A c \in Calls :
        /\ Done(c) => call[c].exc = None /\ Len(call[c].result) = 1
        /\ call[c].exc # None => call[c].pc \in {"sync_finally", "handler"}

\* the worker failed before its loop existed and the call still returned scores
C2_Witness ==
    \E c \in Calls :
        /\ Done(c) /\ call[c].mode = "isolated" /\ call[c].caught = "OSError"
        /\ call[c].metrics = <<"correctness">>
        /\ Len(call[c].result) = 1

\* the mapping the Fallback Scorer gives for a call's arguments
FallbackOf(f) ==
    [m \in Range(f.metrics) |-> FallbackScore(m, f.input_text, f.output_text)]

\* the engine key of a requested name, by the binding table
RawOf(f, metric) ==
    IF IsSupported(metric) THEN f.raw[ragas_metric_map(metric)] ELSE NoValue

\* the call ran the engine and normalized its result row
Normalized(c) == Done(c) /\ call[c].engine = "ok" /\ call[c].caught = None

\* C3: after an isolated run, on every exit path, os.environ is what it was
\* before the call.
C3_EnvironRestored ==
    \A c \in Calls :
        Done(c) /\ call[c].mode = "isolated" => environ = call[c].environ_before

\* C4: when the engine raises, every requested metric gets 0.5, in both
\* modes, and the handler of evaluate is not involved.
C4_EngineFailureIsNeutral ==
    \A c \in Calls :
        Done(c) /\ call[c].engine = "raised" =>
            /\ call[c].caught = None
            /\ call[c].result = <<[m \in Range(call[c].metrics) |-> NeutralScore]>>

\* the engine raised in the worker for a list the fallback would score otherwise
C4_Witness ==
    \E c \in Calls :
        /\ Done(c) /\ call[c].engine = "raised" /\ call[c].mode = "isolated"
        /\ call[c].metrics = <<"toxicity", "correctness">>
        /\ call[c].result[1]["toxicity"] = NeutralScore
        /\ FallbackOf(call[c])["toxicity"] # NeutralScore

\* C5: when the imports of lines 118-127 fail, the returned mapping is the
\* Fallback Scorer's for the same texts and metric list, and the engine was
\* not invoked.
C5_ImportFailureIsFallback ==
    \A c \in Calls :
        Done(c) /\ call[c].caught = "ImportError" =>
            /\ call[c].result = <<FallbackOf(call[c])>>
            /\ call[c].engine_args = <<>>

\* the import failed in the worker and the scores are the heuristic ones
C5_Witness ==
    \E c \in Calls :
        /\ Done(c) /\ call[c].caught = "ImportError" /\ call[c].mode = "isolated"
        /\ call[c].metrics = <<"relevance", "toxicity">>
        /\ call[c].result[1]["toxicity"] = <<1, 3>>
        /\ call[c].result[1]["relevance"] = <<1, 1>>

\* C6: a failed provider detection or LLM construction ends in the Fallback
\* Scorer's mapping with the engine never invoked (the engine runs only with
\* a provider and an LLM handle); a failed probe raises nothing.
C6_SetupFailureIsFallback ==
    \A c \in Calls :
        /\ Done(c) /\ call[c].caught \in {"ProviderError", "LLMError"} =>
              /\ call[c].result = <<FallbackOf(call[c])>>
              /\ call[c].engine_args = <<>> /\ call[c].engine = None
        /\ call[c].engine_args # <<>> =>
              call[c].provider_type # None /\ call[c].llm # NoHandle
        /\ call[c].probe = "failed" =>
              /\ call[c].exc \in {None} \cup LaterExceptions
              /\ call[c].caught \in {None} \cup LaterExceptions

\* the LLM could not be built for a detected provider
C6_Witness ==
    \E c \in Calls :
        /\ Done(c) /\ call[c].caught = "LLMError"
        /\ call[c].provider_type = "azure_openai"
        /\ call[c].metrics = <<"correctness", "banana">>
        /\ call[c].result[1]["correctness"] = <<3, 50>>

\* C7: in a normalized result with a nan in the row, each metric whose own
\* key holds nan scores 0.7 and every other metric scores what its own key
\* gives: the value, or 0.0 when it has none.
C7_NanIsPerMetric ==
    \A c \in Calls :
        Normalized(c) /\ (\E k \in EngineKeys : call[c].raw[k] = NaN) =>
            \A m \in Range(call[c].metrics) :
                LET v == RawOf(call[c], m)
                IN  call[c].result[1][m] =
                        IF v = NaN THEN NanScore
                        ELSE IF v = NoValue THEN MissingScore ELSE v

\* nan for relevance next to a valid correctness
C7_Witness ==
    \E c \in Calls :
        /\ Normalized(c)
        /\ call[c].metrics = <<"relevance", "correctness">>
        /\ call[c].raw["answer_relevancy"] = NaN
        /\ call[c].raw["answer_correctness"] = <<6, 5>>
        /\ call[c].result[1] = [m \in {"relevance", "correctness"} |->
                                  IF m = "relevance" THEN NanScore ELSE <<6, 5>>]

\* C8: in a normalized result, a requested metric with no value under its
\* engine key (or with no engine key) scores 0.0 and the metrics that have a
\* value keep theirs.
C8_MissingKeyIsZero ==
    \A c \in Calls :
        Normalized(c) =>
            \A m \in Range(call[c].metrics) :
                RawOf(call[c], m) = NoValue =>
                    /\ call[c].result[1][m] = MissingScore
                    /\ \A n \in Range(call[c].metrics) :
                          RawOf(call[c], n) \in EngineValues =>
                              call[c].result[1][n] = RawOf(call[c], n)

\* toxicity requested next to relevance
C8_Witness ==
    \E c \in Calls :
        /\ Normalized(c)
        /\ call[c].metrics = <<"relevance", "toxicity">>
        /\ call[c].raw["answer_relevancy"] = <<9, 10>>
        /\ call[c].result[1]["toxicity"] = MissingScore
        /\ call[c].result[1]["relevance"] = <<9, 10>>
        /\ FallbackOf(call[c])["toxicity"] \notin {MissingScore, NeutralScore}

\* C9: when no requested name has an engine counterpart and the LLM was
\* built, the engine is invoked with answer_relevancy alone (unless the
\* dataset could not be built).
C9_DefaultMetricRuns ==
    \A c \in Calls :
        /\ Done(c) /\ NumSupported(call[c].metrics) = 0
        /\ call[c].llm # NoHandle /\ call[c].caught # "DatasetError"
        => /\ Len(call[c].engine_args) = 1
           /\ [i \in DOMAIN call[c].engine_args[1] |-> call[c].engine_args[1][i].name]
                  = <<"answer_relevancy">>

\* C10: the metrics a call hands to the engine carry no handle of an earlier
\* call.
C10_FreshMetricsPerCall ==
    \A c \in Calls :
        Len(call[c].engine_args) = 1 =>
            \A i \in DOMAIN call[c].engine_args[1] :
                /\ call[c].engine_args[1][i].llm \in {NoHandle, c}
                /\ call[c].engine_args[1][i].embeddings \in {NoHandle, c}

\* the engine keys of the requested names that have one, in request order
SupportedKeys(metrics) ==
    LET sel == SelectSeq(metrics, IsSupported)
    IN  [i \in DOMAIN sel |-> ragas_metric_map(sel[i])]

\* what the engine path returns: 0.5 everywhere after an engine failure,
\* otherwise per metric the value of its key, 0.7 for nan, 0.0 for no value
EnginePathScores(f) ==
    [m \in Range(f.metrics) |->
        IF f.engine = "raised" THEN NeutralScore
        ELSE LET v == RawOf(f, m)
             IN  IF v = NaN THEN NanScore
                 ELSE IF v = NoValue THEN MissingScore ELSE v]

\* C11: when the embeddings handle cannot be built the call has no embeddings
\* handle and no exception from it; the engine is given every requested
\* metric that has an engine key, those that need embeddings included, with
\* no embeddings attached; and unless a later stage raises, the scores are
\* the engine path's, not the Fallback Scorer's.
C11_EmbeddingsFailureIsNotFatal ==
    \A c \in Calls :
        call[c].embeddings_try = "failed" =>
            /\ call[c].embeddings = NoHandle
            /\ call[c].exc \in {None} \cup LaterExceptions
            /\ call[c].caught \in {None} \cup LaterExceptions
            /\ Len(call[c].engine_args) = 1 =>
                  /\ [i \in DOMAIN call[c].engine_args[1] |->
                         call[c].engine_args[1][i].name] = SupportedKeys(call[c].metrics)
                  /\ \A i \in DOMAIN call[c].engine_args[1] :
                        call[c].engine_args[1][i].embeddings = NoHandle
            /\ Done(c) /\ call[c].caught = None =>
                  /\ call[c].engine # None
                  /\ call[c].result = <<EnginePathScores(call[c])>>

\* two metrics that need embeddings ran without them and gave engine values
C11_Witness ==
    \E c \in Calls :
        /\ Done(c) /\ call[c].embeddings_try = "failed" /\ call[c].engine = "ok"
        /\ call[c].caught = None /\ call[c].mode = "direct"
        /\ call[c].metrics = <<"correctness", "relevance">>
        /\ \A i \in 1..2 : IsMetricWithEmbeddings(call[c].engine_args[1][i].name)
        /\ call[c].result[1]["correctness"] = <<9, 10>>
        /\ call[c].result[1] # FallbackOf(call[c])

\* the call of _fallback_evaluation in frame c has returned
FallbackDone(c) == call[c].pc = "fallback_done"

\* C12: _fallback_evaluation returns, for each requested name: relevance =
\* min(1, |tokens(input) /\ tokens(output)| / max(|tokens(input)|, 1)) over
\* lower-cased whitespace-split token sets; correctness = min(1, len/100);
\* toxicity = min(1, n/3) with n the toxic words found in the lower-cased
\* output; 0.5 for any other name.  It raises nothing, and equal arguments
\* give equal mappings.
C12_FallbackFormulas ==
    \A c \in Calls :
        /\ call[c].pc \in {"fallback", "fallback_done"} => call[c].exc = None
        /\ FallbackDone(c) =>
              LET in == call[c].input_text
                  out == call[c].output_text
                  tin == Words(Lower(in))
                  tout == Words(Lower(out))
                  common == Cardinality(tin \cap tout)
                  denom == IF Cardinality(tin) >= 1 THEN Cardinality(tin) ELSE 1
                  n == Cardinality({ i \in DOMAIN toxic_words :
                                       Contains(toxic_words[i], Lower(out)) })
              IN  /\ Len(call[c].result) = 1
                  /\ DOMAIN call[c].result[1] = Range(call[c].metrics)
                  /\ \A m \in Range(call[c].metrics) :
                        call[c].result[1][m] =
                            IF m = "relevance"
                            THEN IF common >= denom THEN <<1, 1>> ELSE Div(common, denom)
                            ELSE IF m = "correctness"
                            THEN IF Len(out) >= 100 THEN <<1, 1>> ELSE Div(Len(out), 100)
                            ELSE IF m = "toxicity"
                            THEN IF n >= 3 THEN <<1, 1>> ELSE Div(n, 3)
                            ELSE <<1, 2>>
                  /\ \A d \in Calls :
                        /\ FallbackDone(d)
                        /\ call[d].input_text = in /\ call[d].output_text = out
                        /\ call[d].metrics = call[c].metrics
                        => call[d].result = call[c].result

\* half of the input's tokens are in the output, and "die" is inside "diet"
C12_Witness ==
    \E c, d \in Calls :
        /\ FallbackDone(c) /\ FallbackDone(d)
        /\ call[c].metrics = <<"relevance", "toxicity">>
        /\ call[c].input_text = <<"A"," "," ","a","\t","c">>
        /\ call[c].output_text = <<"B"," ","a","\n","c">>
        /\ call[c].result[1]["relevance"] = <<1, 1>>
        /\ call[d].output_text = <<"d","i","e","t">>
        /\ call[d].result[1]["toxicity"] = <<1, 3>>
        /\ call[d].result[1]["relevance"] = <<0, 1>>

\* a <= b for two scores
Leq(a, b) == a[1] * b[2] <= b[1] * a[2]

\* C13: the fallback's correctness score never decreases when the output
\* gets longer, is 1.0 from length 100 on, and does not depend on the input.
C13_CorrectnessMonotonic ==
    \A c \in Calls :
        FallbackDone(c) /\ "correctness" \in Range(call[c].metrics) =>
            LET score == call[c].result[1]["correctness"]
            IN  /\ Len(call[c].output_text) >= 100 => score = <<1, 1>>
                /\ \A d \in Calls :
                      /\ FallbackDone(d)
                      /\ "correctness" \in Range(call[d].metrics)
                      /\ Len(call[c].output_text) <= Len(call[d].output_text)
                      => Leq(score, call[d].result[1]["correctness"])
                /\ \A input_text \in FallbackInputTexts :
                      fallback_evaluation(input_text, call[c].output_text,
                                          <<"correctness">>)["correctness"] = score

\* outputs of 99 and 101 characters: 0.99 and 1.0
C13_Witness ==
    \E c, d \in Calls :
        /\ FallbackDone(c) /\ FallbackDone(d)
        /\ call[c].metrics = <<"correctness">>
        /\ call[d].metrics = <<"correctness">>
        /\ Len(call[c].output_text) = 99 /\ Len(call[d].output_text) = 101
        /\ call[c].result[1]["correctness"] = <<99, 100>>
        /\ call[d].result[1]["correctness"] = <<1, 1>>

\* the params key behind an environment variable
ParamOf(var) == CHOOSE param \in EnvParams : EnvVarOf(param) = var

\* the worker of an isolated call is between its writes to os.environ and
\* the end of its finally clause
WorkerRunning(c) ==
    /\ call[c].mode = "isolated"
    /\ call[c].pc \in {"sync_newloop", "import", "detect_provider", "create_llm",
                       "probe", "embeddings", "bind", "dataset", "engine",
                       "normalize", "sync_finally"}

\* C14: while the worker of a call runs, each variable the call set holds the
\* value that call gave it, whatever the other calls of the process do.
C14_EnvScopedToCall ==
    \A c \in Calls :
        WorkerRunning(c) =>
            \A i \in DOMAIN call[c].env_vars_set :
                environ[call[c].env_vars_set[i]] =
                    call[c].params[ParamOf(call[c].env_vars_set[i])]

\* C15: when an isolated call returns, the process-wide event loop policy is
\* the one that was installed when the call was made.
C15_PolicyRestored ==
    \A c \in Calls :
        Done(c) /\ call[c].mode = "isolated" => policy = call[c].policy_before

\* C16: when an isolated call returns, on either path, its worker has no
\* open loop and the variables the worker set have been removed again.
C16_WorkerFinishedBeforeReturn ==
    \A c \in Calls :
        Done(c) /\ call[c].mode = "isolated" =>
            /\ call[c].loop # "open"
            /\ \A i \in DOMAIN call[c].env_vars_set :
                  environ[call[c].env_vars_set[i]] = Absent

\* the position of a call, in the order of the source
StageOrder == <<"idle", "sync_setenv", "sync_newloop", "import", "detect_provider",
                "create_llm", "probe", "embeddings", "bind", "dataset", "engine",
                "normalize", "sync_finally", "handler", "done", "returned">>

StageRank(pc) == CHOOSE i \in DOMAIN StageOrder : StageOrder[i] = pc

\* the stage a stage of _run_ragas_async is entered from
StageBefore(pc) ==
    IF pc = "detect_provider" THEN "import"
    ELSE IF pc = "create_llm" THEN "detect_provider"
    ELSE IF pc = "probe" THEN "create_llm"
    ELSE IF pc = "embeddings" THEN "probe"
    ELSE IF pc = "bind" THEN "embeddings"
    ELSE IF pc = "dataset" THEN "bind"
    ELSE IF pc = "engine" THEN "dataset"
    ELSE "engine"

AsyncStages == {"detect_provider", "create_llm", "probe", "embeddings", "bind",
                "dataset", "engine", "normalize"}

\* what holds of a call once its engine has been invoked
EngineAfterSetup(f) ==
    /\ Len(f.engine_args) = 1 =>
          /\ f.provider_type # None /\ f.llm # NoHandle /\ f.embeddings_try # None
          /\ f.supported_metrics # <<>>
          /\ [i \in DOMAIN f.engine_args[1] |-> f.engine_args[1][i].name]
                = [i \in DOMAIN f.supported_metrics |-> f.supported_metrics[i].name]
    /\ f.pc = "normalize" => f.engine = "ok" /\ Len(f.engine_args) = 1
    /\ f.engine # None => Len(f.engine_args) = 1

\* C17: every step of a call moves it forward in the order provider
\* detection, LLM and embeddings construction, metric binding, engine,
\* normalization, so no stage happens twice; each stage is entered from the
\* one before it; the engine runs only after detection and binding, and
\* normalization only after the engine returned.
C17_StagesInOrder ==
    [][\A c \in Calls :
          call'[c] # call[c] /\ call[c].pc # "returned" =>
              /\ StageRank(call'[c].pc) > StageRank(call[c].pc)
              /\ call'[c].pc \in AsyncStages =>
                    call[c].pc = StageBefore(call'[c].pc)
              /\ EngineAfterSetup(call'[c])]_vars

\* an isolated call went through every stage for two bound metrics
C17_Witness ==
    \E c \in Calls :
        /\ Normalized(c) /\ call[c].mode = "isolated"
        /\ call[c].metrics = <<"helpfulness", "correctness">>
        /\ call[c].provider_type = "openai" /\ call[c].probe = "ok"
        /\ Len(call[c].engine_args) = 1 /\ Len(call[c].engine_args[1]) = 2

\* the mode of a call is the one its ambient loop asks for, and a direct call
\* has no worker
ModeMatchesAmbient(f) ==
    f.mode # None =>
        /\ f.mode = "isolated" <=> f.ambient = "uvloop"
        /\ f.mode = "direct" <=> f.ambient \in {"asyncio", "RuntimeError"}
        /\ f.mode = "direct" =>
              /\ f.loop = None /\ f.env_vars_set = <<>>
              /\ f.pc \notin {"sync_setenv", "sync_newloop", "sync_finally"}

\* C18: a call picks its mode when it starts (isolated for a uvloop ambient
\* loop, direct for another loop or none) and keeps it; _run_ragas_async is
\* entered once, from that choice; and an exception that reaches evaluate
\* ends the call with the Fallback Scorer's mapping, never with another run.
C18_OneModePerCall ==
    [][\A c \in Calls :
          call'[c] # call[c] =>
              /\ ModeMatchesAmbient(call'[c])
              /\ call[c].mode # None /\ call'[c].pc # "returned" =>
                    /\ call'[c].mode = call[c].mode
                    /\ call'[c].ambient = call[c].ambient
              /\ call'[c].pc = "import" =>
                    /\ call[c].pc = (IF call'[c].mode = "isolated"
                                      THEN "sync_newloop" ELSE "idle")
                    /\ call[c].exc = None /\ call[c].caught = None
              /\ call[c].pc = "handler" =>
                    /\ call'[c].pc = "done"
                    /\ call'[c].caught = call[c].exc
                    /\ call'[c].result = <<FallbackOf(call[c])>>]_vars

\* the worker's run failed while building the record, and the call ended
\* in isolated mode with the fallback scores
C18_Witness ==
    \E c \in Calls :
        /\ Done(c) /\ call[c].mode = "isolated" /\ call[c].ambient = "uvloop"
        /\ call[c].caught = "DatasetError" /\ call[c].loop = "closed"
        /\ call[c].metrics = <<"toxicity", "relevance">>
        /\ call[c].result = <<FallbackOf(call[c])>>

\* C19: whenever the engine is invoked, the record holds one context and it
\* is not empty: the context of params when there is one and it is not the
\* empty string, otherwise "No specific context provided".
C19_ContextNeverEmpty ==
    \A c \in Calls :
        call[c].engine # None =>
            /\ Len(call[c].contexts) = 1
            /\ call[c].contexts[1] # <<>>
            /\ call[c].contexts[1] =
                  IF "context" \in DOMAIN call[c].params
                     /\ call[c].params["context"] # <<>>
                  THEN call[c].params["context"]
                  ELSE <<"N","o"," ","s","p","e","c","i","f","i","c"," ",
                         "c","o","n","t","e","x","t"," ",
                         "p","r","o","v","i","d","e","d">>

\* the engine ran for params whose context is the empty string
C19_Witness ==
    \E c \in Calls :
        /\ call[c].engine = "ok"
        /\ ContextParam \in DOMAIN call[c].params
        /\ call[c].params[ContextParam] = <<>>
        /\ Len(call[c].contexts[1]) = 28

\* the params key whose presence lets the worker write a variable
KeyOfVariable(var) ==
    IF var = "AZURE_OPENAI_API_KEY" THEN "langfuse.azure_api_key"
    ELSE IF var = "AZURE_OPENAI_ENDPOINT" THEN "langfuse.azure_endpoint"
    ELSE IF var = "OPENAI_API_VERSION" THEN "langfuse.model_version"
    ELSE None

\* C20: a step changes an environment variable only if it is one of the
\* three Azure variables and the step is of an isolated call whose params
\* hold the variable's key; a step changes the policy only for an isolated
\* call; and a direct call, on every path, leaves os.environ and the policy
\* as they were.
C20_FrameOfEvaluate ==
    [][/\ \A v \in DOMAIN environ :
             environ'[v] # environ[v] =>
                 /\ KeyOfVariable(v) # None
                 /\ \E c \in Calls :
                       /\ call'[c] # call[c] /\ call[c].mode = "isolated"
                       /\ KeyOfVariable(v) \in DOMAIN call[c].params
       /\ policy' # policy =>
             \E c \in Calls : call'[c] # call[c] /\ call[c].mode = "isolated"
       /\ \A c \in Calls :
             call'[c].mode = "direct" =>
                 /\ environ' = call'[c].environ_before
                 /\ policy' = call'[c].policy_before]_vars

\* a worker runs with the endpoint alone written, over a set key variable
C20_Witness ==
    \E c \in Calls :
        /\ call[c].mode = "isolated" /\ call[c].pc = "engine"
        /\ DOMAIN call[c].params = {AzureEndpointParam, ContextParam}
        /\ call[c].environ_before[AzureKeyVar] = AmbientValue
        /\ environ[AzureEndpointVar] = call[c].params[AzureEndpointParam]
        /\ \A v \in AllVars \ {AzureEndpointVar} : environ[v] = call[c].environ_before[v]

====
